---- MODULE Spec2Model ----
(***************************************************************************)
(* A model of the Y86-64 simulator: MemoryUnit with its direct-mapped,     *)
(* write-through, no-write-allocate Cache (src/src/memory/memory_unit.py), *)
(* ExecutionUnit (src/src/execution/execution_unit.py) and ControlUnit     *)
(* (src/src/control/control_unit.py).                                      *)
(*                                                                         *)
(* Word width.  The simulator's machine word has 8 bytes of 8 bits.  TLC's *)
(* integers have 32 bits, so the model's word has WordBytes bytes of 8     *)
(* bits (bytes keep their width: opcodes and register selectors are real). *)
(* Every place where the source writes the word size is written with       *)
(* WordBytes here: range(8) in read_memory_64/write_memory_64, 1 << 63 and *)
(* 1 << 64, address % 8, rsp - 8, rsp + 8, addr & ~0x7, and the            *)
(* instruction lengths 9 = 1 + 8 and 10 = 2 + 8.  Python integers are      *)
(* unbounded, and so are the model's: registers and PC hold whatever the   *)
(* code computes.                                                          *)
(***************************************************************************)
EXTENDS Integers, Sequences, FiniteSets, TLC

VARIABLES
    memory,         \* MemoryUnit.memory: Dict[int, int], a sparse map
    lines,          \* Cache.lines: one CacheLine per index
    hits,           \* Cache.hits
    misses,         \* Cache.misses
    accesses,       \* Cache.accesses
    registers,      \* ExecutionUnit.registers: 15 slots
    ZF,             \* ExecutionUnit.ZF
    SF,             \* ExecutionUnit.SF
    OF,             \* ExecutionUnit.OF
    PC,             \* ControlUnit.PC
    status,         \* ControlUnit.status (CPUStatus value 1..4)
    execution_log,  \* ControlUnit.execution_log
    mode,           \* the caller's position: "idle", "run" (inside the loop of
                    \* run_until_halt) or "returned" (run_until_halt returned)
    result,         \* what the last call returned to the caller
    last,           \* history: the cycle step() executed last
    direct,         \* reference: an uncached address-to-byte map (default 0)
    nops            \* number of calls made so far (bounds the model)

vars == <<memory, lines, hits, misses, accesses, registers, ZF, SF, OF, PC,
          status, execution_log, mode, result, last, direct, nops>>

-----------------------------------------------------------------------------
(* Bounds of the model *)

\* bytes per machine word (8 in the source)
WordBytes == 2
\* calls of step() / iterations of the run loop explored
MaxCycles == 4
\* calls of the memory interface explored by SpecMem
MaxOps == 3

(* Program constants *)

\* MemoryUnit.__init__(cache_size=1024)
cache_size == 1024
\* Cache(cache_size=cache_size, line_size=8)
line_size == 8
\* len(self.registers)
NumRegs == 15
\* index of %rsp in the register file
RSP == 4

AOK == 1
HLT == 2
ADR == 3
INS == 4

-----------------------------------------------------------------------------
(* Integer helpers: Python's <<, >>, & on unbounded integers *)

\* "r = v" followed by the statements F(r) that use r
Bind(v, F(_)) == F(v)

RECURSIVE Pow2(_)
Pow2(n) == IF n = 0 THEN 1 ELSE 2 * Pow2(n - 1)

\* int.bit_length() of a non-negative integer
RECURSIVE bit_length(_)
bit_length(n) == IF n = 0 THEN 0 ELSE 1 + bit_length(n \div 2)

\* a >> k (floor division, also for negative a)
Shr(a, k) == a \div Pow2(k)

\* a & m for a mask m = 2^k - 1: the k low bits of a (two's complement)
AndMask(a, m) == a % (m + 1)

\* a & ~m for a mask m = 2^k - 1: a with its k low bits cleared
AndNotMask(a, m) == a - (a % (m + 1))

\* a & b and a ^ b on Python integers (infinite two's complement)
RECURSIVE BitAnd(_, _)
BitAnd(a, b) ==
    IF a = 0 \/ b = 0 THEN 0
    ELSE IF a = -1 THEN b
    ELSE IF b = -1 THEN a
    ELSE (IF a % 2 = 1 /\ b % 2 = 1 THEN 1 ELSE 0) + 2 * BitAnd(a \div 2, b \div 2)

RECURSIVE BitXor(_, _)
BitXor(a, b) ==
    IF a = 0 THEN b
    ELSE IF b = 0 THEN a
    ELSE IF a = -1 THEN -b - 1
    ELSE IF b = -1 THEN -a - 1
    ELSE (IF a % 2 # b % 2 THEN 1 ELSE 0) + 2 * BitXor(a \div 2, b \div 2)

WordBits == 8 * WordBytes
\* 1 << 64
TwoW == Pow2(WordBits)
\* 1 << 63
SignBit == Pow2(WordBits - 1)
MaxInt == SignBit - 1
MinInt == -SignBit

-----------------------------------------------------------------------------
(* Cache *)

num_lines == cache_size \div line_size
offset_bits == bit_length(line_size) - 1
index_bits == bit_length(num_lines) - 1
offset_mask == Pow2(offset_bits) - 1
index_mask == Pow2(index_bits) - 1

\* CacheLine.__init__
CacheLine == [valid |-> FALSE, tag |-> 0,
              data |-> [i \in 0..(line_size - 1) |-> 0], address |-> 0]

get_index_and_tag(address) ==
    [index |-> AndMask(Shr(address, offset_bits), index_mask),
     tag   |-> Shr(address, offset_bits + index_bits)]

\* memory.get(a, 0)
MemGet(mem, a) == IF a \in DOMAIN mem THEN mem[a] ELSE 0

\* memory[a] = v
MemPut(mem, a, v) ==
    [x \in (DOMAIN mem) \cup {a} |-> IF x = a THEN v ELSE mem[x]]

(* The memory unit's state is threaded through the operators below as a    *)
(* record m = [memory, lines, hits, misses, accesses]; each returns the    *)
(* new record with its result.                                             *)

load_line(m, address) ==
    LET base_addr == AndNotMask(address, offset_mask)
        it == get_index_and_tag(address)
        data == [i \in 0..(line_size - 1) |-> MemGet(m.memory, base_addr + i)]
        line == [valid |-> TRUE, tag |-> it.tag, data |-> data,
                 address |-> base_addr]
        offset == AndMask(address, offset_mask)
    IN  [m |-> [m EXCEPT !.lines[it.index] = line], val |-> data[offset]]

\* Cache.read_byte that returns 0 once more than four accesses were counted
Cache_read_byte_budget(m, address) ==
    LET m1 == [m EXCEPT !.accesses = @ + 1]
        it == get_index_and_tag(address)
        line == m.lines[it.index]
    IN  IF line.valid /\ line.tag = it.tag
        THEN [m |-> [m1 EXCEPT !.hits = @ + 1],
              val |-> IF m.accesses > 4 THEN 0 ELSE line.data[AndMask(address, offset_mask)]]
        ELSE load_line([m1 EXCEPT !.misses = @ + 1], address)

Cache_read_byte(m, address) ==
    LET m1 == [m EXCEPT !.accesses = @ + 1]
        it == get_index_and_tag(address)
        line == m.lines[it.index]
    IN  IF line.valid /\ line.tag = it.tag
        THEN [m |-> [m1 EXCEPT !.hits = @ + 1],
              val |-> line.data[AndMask(address, offset_mask)]]
        ELSE load_line([m1 EXCEPT !.misses = @ + 1], address)

\* Cache.write_byte that writes through but never updates a resident line
Cache_write_byte_stale(m, address, value) ==
    [m |-> [m EXCEPT !.accesses = @ + 1, !.misses = @ + 1,
                     !.memory = MemPut(m.memory, address, value)],
     ok |-> TRUE]

\* Cache.write_byte that loads the line on a miss (write-allocate)
Cache_write_byte_allocate(m, address, value) ==
    LET it == get_index_and_tag(address)
        line == m.lines[it.index]
        offset == AndMask(address, offset_mask)
        m1 == [m EXCEPT !.accesses = @ + 1,
                        !.memory = MemPut(m.memory, address, value)]
    IN  IF line.valid /\ line.tag = it.tag
        THEN [m |-> [m1 EXCEPT !.hits = @ + 1,
                               !.lines[it.index].data[offset] = value],
              ok |-> TRUE]
        ELSE [m |-> load_line([m1 EXCEPT !.misses = @ + 1], address).m, ok |-> TRUE]

Cache_write_byte(m, address, value) ==
    LET it == get_index_and_tag(address)
        line == m.lines[it.index]
        offset == AndMask(address, offset_mask)
        m1 == [m EXCEPT !.accesses = @ + 1,
                        !.memory = MemPut(m.memory, address, value)]
    IN  IF line.valid /\ line.tag = it.tag
        THEN [m |-> [m1 EXCEPT !.hits = @ + 1,
                               !.lines[it.index].data[offset] = value],
              ok |-> TRUE]
        ELSE [m |-> [m1 EXCEPT !.misses = @ + 1], ok |-> TRUE]

-----------------------------------------------------------------------------
(* MemoryUnit.  A result that is None in the source has ok = FALSE here.   *)

read_byte(m, address) ==
    IF address < 0 THEN [m |-> m, ok |-> FALSE, val |-> 0]
    ELSE Bind(Cache_read_byte(m, address),
              LAMBDA r : [m |-> r.m, ok |-> TRUE, val |-> r.val])

write_byte(m, address, value) ==
    IF address < 0 THEN [m |-> m, ok |-> FALSE]
    ELSE IF value < 0 \/ value > 255 THEN [m |-> m, ok |-> FALSE]
    ELSE Cache_write_byte(m, address, value)

\* read_memory_64 without "if value & (1 << 63): value = value - (1 << 64)"
RECURSIVE read_memory_64_unsigned(_, _, _, _)
read_memory_64_unsigned(m, address, i, value) ==
    IF i = WordBytes THEN [m |-> m, ok |-> TRUE, val |-> value]
    ELSE Bind(read_byte(m, address + i),
              LAMBDA r : IF ~r.ok THEN [m |-> r.m, ok |-> FALSE, val |-> 0]
                         ELSE read_memory_64_unsigned(r.m, address, i + 1,
                                                      value + r.val * Pow2(8 * i)))

\* the loop of read_memory_64 from byte i on, value accumulated so far
RECURSIVE read_memory_64_loop(_, _, _, _)
read_memory_64_loop(m, address, i, value) ==
    IF i = WordBytes
    THEN [m |-> m, ok |-> TRUE,
          val |-> IF value >= SignBit THEN value - TwoW ELSE value]
    ELSE Bind(read_byte(m, address + i),
              LAMBDA r : IF ~r.ok THEN [m |-> r.m, ok |-> FALSE, val |-> 0]
                         ELSE read_memory_64_loop(r.m, address, i + 1,
                                                  value + r.val * Pow2(8 * i)))

\* read_memory_64 with the alignment test of write_memory_64
read_memory_64_aligned(m, address) ==
    IF address < 0 THEN [m |-> m, ok |-> FALSE, val |-> 0]
    ELSE IF address % WordBytes # 0 THEN [m |-> m, ok |-> FALSE, val |-> 0]
    ELSE read_memory_64_loop(m, address, 0, 0)

read_memory_64(m, address) ==
    IF address < 0 THEN [m |-> m, ok |-> FALSE, val |-> 0]
    ELSE read_memory_64_loop(m, address, 0, 0)

\* the loop of write_memory_64 from byte i on
RECURSIVE write_memory_64_loop(_, _, _, _)
write_memory_64_loop(m, address, i, value) ==
    IF i = WordBytes THEN [m |-> m, ok |-> TRUE]
    ELSE Bind(write_byte(m, address + i, AndMask(Shr(value, 8 * i), 255)),
              LAMBDA r : IF ~r.ok THEN [m |-> r.m, ok |-> FALSE]
                         ELSE write_memory_64_loop(r.m, address, i + 1, value))

write_memory_64(m, address, value) ==
    IF address < 0 THEN [m |-> m, ok |-> FALSE]
    ELSE IF address % WordBytes # 0 THEN [m |-> m, ok |-> FALSE]
    ELSE write_memory_64_loop(m, address, 0,
                              IF value < 0 THEN TwoW + value ELSE value)

push_value(m, value, rsp) ==
    LET new_rsp == rsp - WordBytes
    IN  IF new_rsp < 0 THEN [m |-> m, ok |-> FALSE, val |-> 0]
        ELSE Bind(write_memory_64(m, new_rsp, value),
                  LAMBDA r : IF ~r.ok THEN [m |-> r.m, ok |-> FALSE, val |-> 0]
                             ELSE [m |-> r.m, ok |-> TRUE, val |-> new_rsp])

\* pop_value that returns the stack pointer it was given
pop_value_same_rsp(m, rsp) ==
    IF rsp < 0 THEN [m |-> m, ok |-> FALSE, val |-> 0, new_rsp |-> 0]
    ELSE Bind(read_memory_64(m, rsp),
              LAMBDA r : IF ~r.ok
                         THEN [m |-> r.m, ok |-> FALSE, val |-> 0, new_rsp |-> 0]
                         ELSE [m |-> r.m, ok |-> TRUE, val |-> r.val,
                               new_rsp |-> rsp])

pop_value(m, rsp) ==
    IF rsp < 0 THEN [m |-> m, ok |-> FALSE, val |-> 0, new_rsp |-> 0]
    ELSE Bind(read_memory_64(m, rsp),
              LAMBDA r : IF ~r.ok
                         THEN [m |-> r.m, ok |-> FALSE, val |-> 0, new_rsp |-> 0]
                         ELSE [m |-> r.m, ok |-> TRUE, val |-> r.val,
                               new_rsp |-> rsp + WordBytes])

extract_immediate(m, start_address) == read_memory_64(m, start_address)

\* load_program without its call of _update_cache_if_present
update_cache_never(m, address, value) == m

update_cache_if_present(m, address, value) ==
    LET it == get_index_and_tag(address)
        line == m.lines[it.index]
    IN  IF line.valid /\ line.tag = it.tag
        THEN [m EXCEPT !.lines[it.index].data[AndMask(address, offset_mask)] = value]
        ELSE m


(* load_program.  An input line is modelled after its split at ':' as      *)
(* [addr_ok, addr, digits]: addr_ok says whether int(addr_str, 16) parses, *)
(* digits is inst_str as a sequence of characters, a hex digit being its   *)
(* value 0..15 and any other character NotHex.                             *)

NotHex == 16

\* int(byte_str, 16) of a two-character string: ok = FALSE is ValueError
ParsePair(c1, c2) ==
    IF c1 = NotHex \/ c2 = NotHex THEN [ok |-> FALSE, val |-> 0]
    ELSE [ok |-> TRUE, val |-> 16 * c1 + c2]

\* the inner for loop of load_program over the pairs of inst_str from i on;
\* a pair that does not parse raises ValueError, which ends the line
RECURSIVE load_pairs(_, _, _, _)
load_pairs(m, address, inst_str, i) ==
    IF i >= Len(inst_str) THEN m
    ELSE Bind(ParsePair(inst_str[i + 1], inst_str[i + 2]),
              LAMBDA p :
                IF ~p.ok THEN m
                ELSE load_pairs(
                       update_cache_if_present(
                           [m EXCEPT !.memory = MemPut(m.memory, address + (i \div 2), p.val)],
                           address + (i \div 2), p.val),
                       address, inst_str, i + 2))

load_line_text(m, line) ==
    IF line.digits = <<>> THEN m
    ELSE IF ~line.addr_ok THEN m
    ELSE LET inst_str == IF Len(line.digits) % 2 # 0
                         THEN <<0>> \o line.digits ELSE line.digits
         IN  load_pairs(m, line.addr, inst_str, 0)

RECURSIVE load_lines(_, _, _)
load_lines(m, input_lines, k) ==
    IF k > Len(input_lines) THEN m
    ELSE load_lines(load_line_text(m, input_lines[k]), input_lines, k + 1)

\* MemoryUnit.load_program: the new memory unit and the value returned
load_program(m, input_lines) ==
    [m |-> load_lines(m, input_lines, 1), ok |-> TRUE]

-----------------------------------------------------------------------------
(* get_nonzero_memory.  A dict is modelled as the sequence of its          *)
(* <<key, value>> items in insertion order.                                *)

\* addr & ~0x7
AlignDown(addr) == addr - (addr % WordBytes)

\* the value of the window at base_addr, before the sign is applied
RECURSIVE window_value(_, _, _)
window_value(mem, base_addr, i) ==
    IF i = WordBytes THEN 0
    ELSE MemGet(mem, base_addr + i) * Pow2(8 * i) + window_value(mem, base_addr, i + 1)

window_has_nonzero(mem, base_addr) ==
    \E i \in 0..(WordBytes - 1) : MemGet(mem, base_addr + i) # 0

\* sorted(items) of a dict with integer keys: ascending by key
RECURSIVE SortedByKey(_, _)
SortedByKey(keys, f) ==
    IF keys = {} THEN <<>>
    ELSE LET k == CHOOSE x \in keys : \A y \in keys : x <= y
         IN  <<<<k, f[k]>>>> \o SortedByKey(keys \ {k}, f)

\* get_nonzero_memory without "if value & (1 << 63): value = value - (1 << 64)"
get_nonzero_memory_unsigned(mem) ==
    LET aligned_addresses == {AlignDown(addr) : addr \in DOMAIN mem}
        nonzero == {b \in aligned_addresses : window_has_nonzero(mem, b)}
        value == [b \in nonzero |-> window_value(mem, b, 0)]
    IN  SortedByKey(nonzero, value)

get_nonzero_memory(mem) ==
    LET aligned_addresses == {AlignDown(addr) : addr \in DOMAIN mem}
        nonzero == {b \in aligned_addresses : window_has_nonzero(mem, b)}
        value == [b \in nonzero |->
                    LET v == window_value(mem, b, 0)
                    IN  IF v >= SignBit THEN v - TwoW ELSE v]
    IN  SortedByKey(nonzero, value)


-----------------------------------------------------------------------------
(* ExecutionUnit.  An opcode, the two-character string f"{byte:02X}", is   *)
(* the pair <<high nibble, low nibble>>.                                   *)

\* f"{opcode_byte:02X}" for a byte 0..255
Hex2(byte) == <<byte \div 16, byte % 16>>

\* self.instruction_set; "" is what .get(opcode, '') gives for a missing key
instruction_set(opcode) ==
    CASE opcode = <<0, 0>> -> "halt"     [] opcode = <<1, 0>> -> "nop"
      [] opcode = <<2, 0>> -> "rrmovq"   [] opcode = <<2, 1>> -> "cmovle"
      [] opcode = <<2, 2>> -> "cmovl"    [] opcode = <<2, 3>> -> "cmove"
      [] opcode = <<2, 4>> -> "cmovne"   [] opcode = <<2, 5>> -> "cmovge"
      [] opcode = <<2, 6>> -> "cmovg"
      [] opcode = <<3, 0>> -> "irmovq"   [] opcode = <<4, 0>> -> "rmmovq"
      [] opcode = <<5, 0>> -> "mrmovq"
      [] opcode = <<6, 0>> -> "addq"     [] opcode = <<6, 1>> -> "subq"
      [] opcode = <<6, 2>> -> "andq"     [] opcode = <<6, 3>> -> "xorq"
      [] opcode = <<7, 0>> -> "jmp"      [] opcode = <<7, 1>> -> "jle"
      [] opcode = <<7, 2>> -> "jl"       [] opcode = <<7, 3>> -> "je"
      [] opcode = <<7, 4>> -> "jne"      [] opcode = <<7, 5>> -> "jge"
      [] opcode = <<7, 6>> -> "jg"
      [] opcode = <<8, 0>> -> "call"     [] opcode = <<9, 0>> -> "ret"
      [] opcode = <<10, 0>> -> "pushq"   [] opcode = <<11, 0>> -> "popq"
      [] OTHER -> ""

\* Instruction(opcode, length, address=pc) with the dataclass defaults
Instruction(opcode, length, address) ==
    [opcode |-> opcode, length |-> length, rA |-> 0, rB |-> 0,
     immediate |-> 0, address |-> address]

\* byte2 = memory.read_byte(pc + 1), then the selectors it sets
decode_regs(m, instr, pc, setA, setB) ==
    Bind(read_byte(m, pc + 1),
         LAMBDA r :
           [m |-> r.m,
            instr |-> IF r.ok
                      THEN [instr EXCEPT
                              !.rA = IF setA THEN AndMask(Shr(r.val, 4), 15) ELSE @,
                              !.rB = IF setB THEN AndMask(r.val, 15) ELSE @]
                      ELSE instr])

\* imm = memory.extract_immediate(at), then instr.immediate
decode_imm(d, at) ==
    Bind(extract_immediate(d.m, at),
         LAMBDA r :
           [m |-> r.m,
            instr |-> IF r.ok THEN [d.instr EXCEPT !.immediate = r.val] ELSE d.instr])

\* the except branch of decode_instruction
decode_fallback(m, pc) == [m |-> m, instr |-> Instruction(<<0, 0>>, 1, pc)]

\* decode_instruction once the opcode byte is read; opcode[1] and opcode[2]
\* are the source's opcode[0] and opcode[1]
decode_opcode(m, pc, opcode) ==
    LET instr_type == instruction_set(opcode)
        instr == Instruction(opcode, 1, pc)
        WithLen(n) == [instr EXCEPT !.length = n]
    IN  IF instr_type = "" THEN decode_fallback(m, pc)
        ELSE IF instr_type = "rrmovq" \/ opcode[1] = 2
             THEN decode_regs(m, WithLen(2), pc, TRUE, TRUE)
        ELSE IF instr_type = "irmovq"
             THEN decode_imm(decode_regs(m, WithLen(2 + WordBytes), pc, FALSE, TRUE),
                             pc + 2)
        ELSE IF instr_type \in {"rmmovq", "mrmovq"}
             THEN decode_imm(decode_regs(m, WithLen(2 + WordBytes), pc, TRUE, TRUE),
                             pc + 2)
        ELSE IF instr_type \in {"addq", "subq", "andq", "xorq"}
             THEN decode_regs(m, WithLen(2), pc, TRUE, TRUE)
        ELSE IF opcode[1] = 7 \/ instr_type = "call"
             THEN decode_imm([m |-> m, instr |-> WithLen(1 + WordBytes)], pc + 1)
        ELSE IF instr_type \in {"pushq", "popq"}
             THEN decode_regs(m, WithLen(2), pc, TRUE, FALSE)
        ELSE [m |-> m, instr |-> WithLen(1)]

decode_instruction(m, pc) ==
    Bind(read_byte(m, pc),
         LAMBDA r : IF ~r.ok THEN decode_fallback(r.m, pc)
                    ELSE decode_opcode(r.m, pc, Hex2(r.val)))

get_register_value(regs, reg_index) ==
    IF 0 <= reg_index /\ reg_index < NumRegs THEN regs[reg_index] ELSE 0

\* set_register_value that wraps an out-of-range index around
set_register_value_wrapped(regs, reg_index, value) ==
    [regs EXCEPT ![reg_index % NumRegs] = value]

set_register_value(regs, reg_index, value) ==
    IF 0 <= reg_index /\ reg_index < NumRegs
    THEN [regs EXCEPT ![reg_index] = value] ELSE regs

(* The machine is threaded through the operators below as a record         *)
(* s = [m, registers, ZF, SF, OF, PC, status].                             *)

update_condition_codes(s, res, valA, valB, operation) ==
    [s EXCEPT
       !.ZF = IF res = 0 THEN 1 ELSE 0,
       !.SF = IF res < 0 THEN 1 ELSE 0,
       !.OF = IF operation = "add"
              THEN (IF (valA > 0 /\ valB > 0 /\ res < 0)
                       \/ (valA < 0 /\ valB < 0 /\ res > 0) THEN 1 ELSE 0)
              ELSE IF operation = "sub"
              THEN (IF (valB >= 0 /\ valA < 0 /\ res < 0)
                       \/ (valB < 0 /\ valA >= 0 /\ res > 0) THEN 1 ELSE 0)
              ELSE 0]

\* the value the ALU hands to set_register_value and update_condition_codes
alu_result(operation, valA, valB) ==
    CASE operation = "add" -> valB + valA
      [] operation = "sub" -> valB - valA
      [] operation = "and" -> BitAnd(valB, valA)
      [] operation = "xor" -> BitXor(valB, valA)

\* execute_addq / execute_subq / execute_andq / execute_xorq
execute_alu(s, rA, rB, operation) ==
    LET valA == get_register_value(s.registers, rA)
        valB == get_register_value(s.registers, rB)
        res == alu_result(operation, valA, valB)
    IN  update_condition_codes(
            [s EXCEPT !.registers = set_register_value(@, rB, res)],
            res, valA, valB, operation)

execute_arithmetic(s, instr) ==
    LET instr_type == instruction_set(instr.opcode)
    IN  CASE instr_type = "addq" -> [s |-> execute_alu(s, instr.rA, instr.rB, "add"), ok |-> TRUE]
          [] instr_type = "subq" -> [s |-> execute_alu(s, instr.rA, instr.rB, "sub"), ok |-> TRUE]
          [] instr_type = "andq" -> [s |-> execute_alu(s, instr.rA, instr.rB, "and"), ok |-> TRUE]
          [] instr_type = "xorq" -> [s |-> execute_alu(s, instr.rA, instr.rB, "xor"), ok |-> TRUE]
          [] OTHER -> [s |-> s, ok |-> FALSE]

execute_rrmovq(s, rA, rB) ==
    [s |-> [s EXCEPT !.registers =
                set_register_value(@, rB, get_register_value(s.registers, rA))],
     ok |-> TRUE]

\* an irmovq that sets ZF and SF from the value it loads
execute_irmovq_sets_flags(s, rB, immediate) ==
    [s |-> [s EXCEPT !.registers = set_register_value(@, rB, immediate),
                     !.ZF = IF immediate = 0 THEN 1 ELSE 0,
                     !.SF = IF immediate < 0 THEN 1 ELSE 0],
     ok |-> TRUE]

execute_irmovq(s, rB, immediate) ==
    [s |-> [s EXCEPT !.registers = set_register_value(@, rB, immediate)],
     ok |-> TRUE]

execute_rmmovq(s, rA, rB, offset) ==
    LET address == get_register_value(s.registers, rB) + offset
        value == get_register_value(s.registers, rA)
    IN  Bind(write_memory_64(s.m, address, value),
             LAMBDA w : [s |-> [s EXCEPT !.m = w.m], ok |-> w.ok])

execute_mrmovq(s, rA, rB, offset) ==
    LET address == get_register_value(s.registers, rB) + offset
    IN  Bind(read_memory_64(s.m, address),
             LAMBDA r :
               IF r.ok
               THEN [s |-> [s EXCEPT !.m = r.m,
                                     !.registers = set_register_value(@, rA, r.val)],
                     ok |-> TRUE]
               ELSE [s |-> [s EXCEPT !.m = r.m], ok |-> FALSE])

execute_move(s, instr) ==
    LET instr_type == instruction_set(instr.opcode)
    IN  CASE instr_type = "rrmovq" -> execute_rrmovq(s, instr.rA, instr.rB)
          [] instr_type = "irmovq" -> execute_irmovq(s, instr.rB, instr.immediate)
          [] instr_type = "rmmovq" -> execute_rmmovq(s, instr.rA, instr.rB, instr.immediate)
          [] instr_type = "mrmovq" -> execute_mrmovq(s, instr.rA, instr.rB, instr.immediate)
          [] OTHER -> [s |-> s, ok |-> FALSE]

\* the predicate of execute_conditional_move for the opcode's second character
\* the predicates with "g" computed as "ge"
cmov_condition_met_g_as_ge(condition_code, zf, sf, of) ==
    CASE condition_code = 0 -> TRUE
      [] condition_code = 1 -> (zf = 1) \/ (sf # of)
      [] condition_code = 2 -> (sf # of)
      [] condition_code = 3 -> (zf = 1)
      [] condition_code = 4 -> ~(zf = 1)
      [] condition_code = 5 -> (sf = of)
      [] condition_code = 6 -> (sf = of)
      [] OTHER -> FALSE

cmov_condition_met(condition_code, zf, sf, of) ==
    CASE condition_code = 0 -> TRUE
      [] condition_code = 1 -> (zf = 1) \/ (sf # of)
      [] condition_code = 2 -> (sf # of)
      [] condition_code = 3 -> (zf = 1)
      [] condition_code = 4 -> ~(zf = 1)
      [] condition_code = 5 -> (sf = of)
      [] condition_code = 6 -> ~(zf = 1) /\ (sf = of)
      [] OTHER -> FALSE

execute_conditional_move(s, instr) ==
    IF cmov_condition_met(instr.opcode[2], s.ZF, s.SF, s.OF)
    THEN [s EXCEPT !.registers =
              set_register_value(@, instr.rB, get_register_value(s.registers, instr.rA))]
    ELSE s


-----------------------------------------------------------------------------
(* ControlUnit *)

check_jump_condition(jump_type, zf, sf, of) ==
    CASE jump_type = "jmp" -> TRUE
      [] jump_type = "jle" -> (zf = 1) \/ (sf # of)
      [] jump_type = "jl"  -> (sf # of)
      [] jump_type = "je"  -> (zf = 1)
      [] jump_type = "jne" -> ~(zf = 1)
      [] jump_type = "jge" -> (sf = of)
      [] jump_type = "jg"  -> ~(zf = 1) /\ (sf = of)
      [] OTHER -> FALSE

\* a jump that is never taken
execute_jump_not_taken(s, instr) == [s |-> s, ok |-> FALSE]

execute_jump(s, instr) ==
    IF check_jump_condition(instruction_set(instr.opcode), s.ZF, s.SF, s.OF)
    THEN [s |-> [s EXCEPT !.PC = instr.immediate], ok |-> TRUE]
    ELSE [s |-> s, ok |-> FALSE]

\* a call that, like pushq, decrements %rsp whether or not the push succeeded
execute_call_always_decrements(s, instr) ==
    LET return_address == s.PC + instr.length
        rsp == get_register_value(s.registers, RSP)
    IN  Bind(push_value(s.m, return_address, rsp),
             LAMBDA p :
               IF ~p.ok
               THEN [s |-> [s EXCEPT !.m = p.m,
                                     !.registers = set_register_value(@, RSP, rsp - WordBytes)],
                     ok |-> FALSE]
               ELSE [s |-> [s EXCEPT !.m = p.m,
                                     !.registers = set_register_value(@, RSP, p.val),
                                     !.PC = instr.immediate],
                     ok |-> TRUE])

execute_call(s, instr) ==
    LET return_address == s.PC + instr.length
        rsp == get_register_value(s.registers, RSP)
    IN  Bind(push_value(s.m, return_address, rsp),
             LAMBDA p :
               IF ~p.ok THEN [s |-> [s EXCEPT !.m = p.m], ok |-> FALSE]
               ELSE [s |-> [s EXCEPT !.m = p.m,
                                     !.registers = set_register_value(@, RSP, p.val),
                                     !.PC = instr.immediate],
                     ok |-> TRUE])

\* a ret that refuses a negative return address
execute_ret_checked(s) ==
    Bind(pop_value(s.m, get_register_value(s.registers, RSP)),
         LAMBDA p :
           IF ~p.ok \/ p.val < 0 THEN [s |-> [s EXCEPT !.m = p.m], ok |-> FALSE]
           ELSE [s |-> [s EXCEPT !.m = p.m,
                                 !.registers = set_register_value(@, RSP, p.new_rsp),
                                 !.PC = p.val],
                 ok |-> TRUE])

execute_ret(s) ==
    Bind(pop_value(s.m, get_register_value(s.registers, RSP)),
         LAMBDA p :
           IF ~p.ok THEN [s |-> [s EXCEPT !.m = p.m], ok |-> FALSE]
           ELSE [s |-> [s EXCEPT !.m = p.m,
                                 !.registers = set_register_value(@, RSP, p.new_rsp),
                                 !.PC = p.val],
                 ok |-> TRUE])

\* a pushq that updates %rsp only when the write succeeded
\* a pushq that reads its operand after the stack pointer was decremented
execute_pushq_decrement_first(s, instr) ==
    LET rsp == get_register_value(s.registers, RSP)
        new_rsp == rsp - WordBytes
        decremented == set_register_value(s.registers, RSP, new_rsp)
        value == get_register_value(decremented, instr.rA)
    IN  Bind(write_memory_64(s.m, new_rsp, value),
             LAMBDA w :
               [s |-> [s EXCEPT !.m = w.m, !.registers = decremented],
                ok |-> w.ok])

execute_pushq_rollback(s, instr) ==
    LET value == get_register_value(s.registers, instr.rA)
        rsp == get_register_value(s.registers, RSP)
        new_rsp == rsp - WordBytes
    IN  Bind(write_memory_64(s.m, new_rsp, value),
             LAMBDA w :
               [s |-> [s EXCEPT !.m = w.m,
                                !.registers = IF w.ok THEN set_register_value(@, RSP, new_rsp)
                                              ELSE @],
                ok |-> w.ok])

execute_pushq(s, instr) ==
    LET value == get_register_value(s.registers, instr.rA)
        rsp == get_register_value(s.registers, RSP)
        new_rsp == rsp - WordBytes
    IN  Bind(write_memory_64(s.m, new_rsp, value),
             LAMBDA w :
               [s |-> [s EXCEPT !.m = w.m,
                                !.registers = set_register_value(@, RSP, new_rsp)],
                ok |-> w.ok])

\* a popq that writes the destination before the stack pointer
execute_popq_rsp_last(s, instr) ==
    Bind(pop_value(s.m, get_register_value(s.registers, RSP)),
         LAMBDA p :
           IF ~p.ok THEN [s |-> [s EXCEPT !.m = p.m], ok |-> FALSE]
           ELSE [s |-> [s EXCEPT !.m = p.m,
                                 !.registers =
                                    set_register_value(
                                       set_register_value(@, instr.rA, p.val),
                                       RSP, p.new_rsp)],
                 ok |-> TRUE])

execute_popq(s, instr) ==
    Bind(pop_value(s.m, get_register_value(s.registers, RSP)),
         LAMBDA p :
           IF ~p.ok THEN [s |-> [s EXCEPT !.m = p.m], ok |-> FALSE]
           ELSE [s |-> [s EXCEPT !.m = p.m,
                                 !.registers =
                                    set_register_value(
                                       set_register_value(@, RSP, p.new_rsp),
                                       instr.rA, p.val)],
                 ok |-> TRUE])

\* "if not execute(...): status = ADR" with the else branch left out
adr_or_stay(x, instr) ==
    IF ~x.ok THEN [x.s EXCEPT !.status = ADR] ELSE x.s

\* "if not execute(...): status = ADR else: PC += length"
adr_or_advance(x, instr) ==
    IF ~x.ok THEN [x.s EXCEPT !.status = ADR]
    ELSE [x.s EXCEPT !.PC = @ + instr.length]

\* "if not execute(...): status = ADR" (call, ret: PC is set by the routine)
adr_or_keep(x) ==
    IF ~x.ok THEN [x.s EXCEPT !.status = ADR] ELSE x.s

\* a halt that also steps over its own byte
execute_halt_advance(s) == [s EXCEPT !.status = HLT, !.PC = @ + 1]

\* "self.status = CPUStatus.HLT"
execute_halt(s) == [s EXCEPT !.status = HLT]

\* the dispatch of step() on the decoded instruction; s.m is the memory unit
\* as decode left it
dispatch(s, instr) ==
    LET instr_type == instruction_set(instr.opcode)
    IN  IF instr_type = "halt" THEN execute_halt(s)
        ELSE IF instr_type = "nop" THEN [s EXCEPT !.PC = @ + instr.length]
        ELSE IF instr_type = "rrmovq" \/ instr.opcode[1] = 2
             THEN [execute_conditional_move(s, instr) EXCEPT !.PC = @ + instr.length]
        ELSE IF instr_type \in {"irmovq", "rmmovq", "mrmovq"}
             THEN adr_or_advance(execute_move(s, instr), instr)
        ELSE IF instr_type \in {"addq", "subq", "andq", "xorq"}
             THEN [execute_arithmetic(s, instr).s EXCEPT !.PC = @ + instr.length]
        ELSE IF instr_type = "pushq"
             THEN adr_or_advance(execute_pushq(s, instr), instr)
        ELSE IF instr_type = "popq"
             THEN adr_or_advance(execute_popq(s, instr), instr)
        ELSE IF instr_type = "call" THEN adr_or_keep(execute_call(s, instr))
        ELSE IF instr_type = "ret" THEN adr_or_keep(execute_ret(s))
        ELSE IF instr.opcode[1] = 7
             THEN Bind(execute_jump(s, instr),
                       LAMBDA j : IF ~j.ok THEN [j.s EXCEPT !.PC = @ + instr.length]
                                  ELSE j.s)
        ELSE [s EXCEPT !.status = INS]

\* ExecutionUnit.get_all_registers: a dict, as its items in insertion order
reg_names == <<"rax", "rcx", "rdx", "rbx", "rsp", "rbp", "rsi", "rdi",
               "r8", "r9", "r10", "r11", "r12", "r13", "r14">>

\* get_all_registers without an entry for %rsp
get_all_registers_without_rsp(regs) ==
    [k \in 1..(Len(reg_names) - 1) |->
        <<reg_names[IF k <= RSP THEN k ELSE k + 1],
          regs[IF k <= RSP THEN k - 1 ELSE k]>>]

get_all_registers(regs) ==
    [k \in 1..Len(reg_names) |-> <<reg_names[k], regs[k - 1]>>]

\* d.get(key, default) on a dict given as its items
DictGet(items, key, default) ==
    IF \E k \in DOMAIN items : items[k][1] = key
    THEN items[CHOOSE k \in DOMAIN items : items[k][1] = key][2]
    ELSE default

\* str(n): the decimal text of an integer as a sequence of character codes
RECURSIVE StrNat(_)
StrNat(n) == IF n < 10 THEN <<48 + n>> ELSE StrNat(n \div 10) \o <<48 + (n % 10)>>

Str(n) == IF n < 0 THEN <<45>> \o StrNat(-n) ELSE StrNat(n)

\* a < b on Python strings: by code point, a proper prefix first
RECURSIVE StrLess(_, _)
StrLess(a, b) ==
    IF b = <<>> THEN FALSE
    ELSE IF a = <<>> THEN TRUE
    ELSE IF a[1] # b[1] THEN a[1] < b[1]
    ELSE StrLess(Tail(a), Tail(b))

\* list.sort(key=lambda x: x[0]) on items with string keys: stable, ascending
RECURSIVE InsertByStr(_, _)
InsertByStr(sorted, item) ==
    IF sorted = <<>> THEN <<item>>
    ELSE IF StrLess(item[1], sorted[Len(sorted)][1])
         THEN InsertByStr(SubSeq(sorted, 1, Len(sorted) - 1), item)
                  \o <<sorted[Len(sorted)]>>
         ELSE sorted \o <<item>>

\* generate_state_log without "memory_items.sort(key=lambda x: x[0])"
SortByStr_unsorted(items) == items

RECURSIVE SortByStr(_)
SortByStr(items) ==
    IF items = <<>> THEN <<>>
    ELSE InsertByStr(SortByStr(SubSeq(items, 1, Len(items) - 1)), items[Len(items)])

\* the order in which generate_state_log writes the registers
log_reg_order == <<"r10", "r11", "r12", "r13", "r14", "r8", "r9", "rax",
                   "rbp", "rbx", "rcx", "rdi", "rdx", "rsi", "rsp">>

\* registers = {"r10": registers_raw.get("r10", 0), ..., "rsp": ....get("rsp", 512)}
log_registers(registers_raw) ==
    [k \in 1..Len(log_reg_order) |->
        <<log_reg_order[k],
          DictGet(registers_raw, log_reg_order[k],
                  IF log_reg_order[k] = "rsp" THEN 512 ELSE 0)>>]

\* memory_items = [(str(addr), memory_raw[addr]) for addr in memory_raw.keys()]
log_memory_items(memory_raw) ==
    [k \in 1..Len(memory_raw) |-> <<Str(memory_raw[k][1]), memory_raw[k][2]>>]

generate_state_log(s) ==
    [CC   |-> [OF |-> s.OF, SF |-> s.SF, ZF |-> s.ZF],
     MEM  |-> SortByStr(log_memory_items(get_nonzero_memory(s.m.memory))),
     PC   |-> s.PC,
     REG  |-> log_registers(get_all_registers(s.registers)),
     STAT |-> s.status]

\* step without "if self.status != CPUStatus.AOK: return ..."
step_unguarded(s) ==
    Bind(decode_instruction(s.m, s.PC),
         LAMBDA d : Bind(dispatch([s EXCEPT !.m = d.m], d.instr),
                         LAMBDA s2 : [s |-> s2, log |-> generate_state_log(s2)]))

\* ControlUnit.step: the new machine and the snapshot returned
step(s) ==
    IF s.status # AOK THEN [s |-> s, log |-> generate_state_log(s)]
    ELSE Bind(decode_instruction(s.m, s.PC),
              LAMBDA d : Bind(dispatch([s EXCEPT !.m = d.m], d.instr),
                              LAMBDA s2 : [s |-> s2, log |-> generate_state_log(s2)]))


-----------------------------------------------------------------------------
(* The state machine *)

\* the memory unit and the machine as the records the operators thread
MU == [memory |-> memory, lines |-> lines, hits |-> hits, misses |-> misses,
       accesses |-> accesses]

Machine == [m |-> MU, registers |-> registers, ZF |-> ZF, SF |-> SF, OF |-> OF,
            PC |-> PC, status |-> status]

SetMU(m) ==
    /\ memory' = m.memory
    /\ lines' = m.lines
    /\ hits' = m.hits
    /\ misses' = m.misses
    /\ accesses' = m.accesses

SetMachine(s) ==
    /\ SetMU(s.m)
    /\ registers' = s.registers
    /\ ZF' = s.ZF
    /\ SF' = s.SF
    /\ OF' = s.OF
    /\ PC' = s.PC
    /\ status' = s.status

cpu_vars == <<registers, ZF, SF, OF, PC, status, execution_log, mode, last>>

\* the last call and what it returned: addr and arg are the address and the
\* value passed to the memory interface, ok and val its result (ok = FALSE
\* is None or False), log the snapshot of step() or the trace of
\* run_until_halt()
Returned(op, addr, arg, ok, val, log) ==
    [op |-> op, addr |-> addr, arg |-> arg, ok |-> ok, val |-> val, log |-> log]

NoCycle == [executed |-> FALSE, type |-> "none", fetched |-> 0,
            instr |-> Instruction(<<0, 0>>, 1, 0), pc |-> 0, rsp |-> 0]

\* history of the cycle step() is about to execute in the current state:
\* the byte it fetches (-1 when the fetch fails), the decoded instruction
\* and its class, PC and %rsp before the cycle
ThisCycle ==
    IF status # AOK THEN [NoCycle EXCEPT !.pc = PC, !.rsp = registers[RSP]]
    ELSE Bind(decode_instruction(MU, PC),
              LAMBDA d :
                [executed |-> TRUE,
                 type |-> instruction_set(d.instr.opcode),
                 fetched |-> Bind(read_byte(MU, PC),
                                  LAMBDA f : IF f.ok THEN f.val ELSE -1),
                 instr |-> d.instr, pc |-> PC, rsp |-> registers[RSP]])

(* Reference model of memory without a cache: a sparse map, default 0 *)

DirectRead(d, a) == IF a \in DOMAIN d THEN d[a] ELSE 0

DirectWrite(d, a, v) == [x \in (DOMAIN d) \cup {a} |-> IF x = a THEN v ELSE d[x]]

\* the bytes of a word, least significant first
RECURSIVE DirectWrite64(_, _, _, _)
DirectWrite64(d, a, v, i) ==
    IF i = WordBytes THEN d
    ELSE DirectWrite64(DirectWrite(d, a + i, ((v % TwoW) \div Pow2(8 * i)) % 256),
                       a, v, i + 1)

\* the byte assignments of one input line: its pairs up to the first that
\* does not parse
RECURSIVE DirectLoadLine(_, _, _, _)
DirectLoadLine(d, a, digits, i) ==
    IF i >= Len(digits) \/ digits[i + 1] = NotHex \/ digits[i + 2] = NotHex THEN d
    ELSE DirectLoadLine(DirectWrite(d, a + (i \div 2), 16 * digits[i + 1] + digits[i + 2]),
                        a, digits, i + 2)

RECURSIVE DirectLoad(_, _, _)
DirectLoad(d, input_lines, k) ==
    IF k > Len(input_lines) THEN d
    ELSE LET l == input_lines[k]
             dg == IF Len(l.digits) % 2 # 0 THEN <<0>> \o l.digits ELSE l.digits
         IN  DirectLoad(IF l.addr_ok THEN DirectLoadLine(d, l.addr, dg, 0) ELSE d,
                        input_lines, k + 1)

\* the word store of the cycle about to execute, applied to the reference
DirectAfterCycle(d, c) ==
    LET store(a, v) == IF a >= 0 /\ a % WordBytes = 0 THEN DirectWrite64(d, a, v, 0) ELSE d
    IN  IF ~c.executed THEN d
        ELSE IF c.type = "rmmovq"
             THEN store(get_register_value(registers, c.instr.rB) + c.instr.immediate,
                        get_register_value(registers, c.instr.rA))
        ELSE IF c.type = "pushq"
             THEN store(c.rsp - WordBytes, get_register_value(registers, c.instr.rA))
        ELSE IF c.type = "call"
             THEN store(c.rsp - WordBytes, c.pc + c.instr.length)
        ELSE d

Init ==
    /\ memory = [a \in {} |-> 0]
    /\ lines = [i \in 0..(num_lines - 1) |-> CacheLine]
    /\ hits = 0
    /\ misses = 0
    /\ accesses = 0
    /\ registers = [i \in 0..(NumRegs - 1) |-> 0]
    /\ ZF = 1
    /\ SF = 0
    /\ OF = 0
    /\ PC = 0
    /\ status = AOK
    /\ execution_log = <<>>
    /\ mode = "idle"
    /\ result = Returned("none", 0, 0, TRUE, 0, <<>>)
    /\ last = NoCycle
    /\ direct = [a \in {} |-> 0]
    /\ nops = 0

\* ControlUnit.load_program(input_lines)
LoadDone(r, input_lines) ==
    /\ SetMU(r.m)
    /\ result' = Returned("load_program", 0, 0, r.ok, 0, <<>>)
    /\ direct' = DirectLoad(direct, input_lines, 1)
    /\ UNCHANGED cpu_vars

Load(input_lines) == LoadDone(load_program(MU, input_lines), input_lines)

\* the caller calls step() once
\* the effect of a cycle on the machine and on the history: r is what
\* step() computed, c the cycle it executed
Cycle(r, c) ==
    /\ SetMachine(r.s)
    /\ last' = c
    /\ direct' = DirectAfterCycle(direct, c)
    /\ nops' = nops + 1

StepDone(r) ==
    /\ Cycle(r, ThisCycle)
    /\ result' = Returned("step", 0, 0, TRUE, 0, <<r.log>>)
    /\ mode' = "idle"
    /\ UNCHANGED execution_log

StepCall ==
    /\ mode # "run"
    /\ nops < MaxCycles
    /\ StepDone(step(Machine))

\* run_until_halt() is called: the log is cleared and the loop test made
RunStart ==
    /\ mode # "run"
    /\ nops < MaxCycles
    /\ execution_log' = <<>>
    /\ IF status = AOK
       THEN mode' = "run" /\ result' = Returned("none", 0, 0, TRUE, 0, <<>>)
       ELSE mode' = "returned" /\ result' = Returned("run_until_halt", 0, 0, TRUE, 0, <<>>)
    /\ UNCHANGED <<memory, lines, hits, misses, accesses, registers, ZF, SF, OF,
                   PC, status, last, direct, nops>>

\* the loop body with the break placed before the append
RunIterDone_break_first(r) ==
    /\ Cycle(r, ThisCycle)
    /\ IF r.s.status # AOK
       THEN /\ execution_log' = execution_log
            /\ mode' = "returned"
            /\ result' = Returned("run_until_halt", 0, 0, TRUE, 0, execution_log)
       ELSE /\ execution_log' = Append(execution_log, r.log)
            /\ mode' = "run"
            /\ result' = result

\* one iteration of the loop of run_until_halt
RunIterDone(r) ==
    /\ Cycle(r, ThisCycle)
    /\ execution_log' = Append(execution_log, r.log)
    /\ IF r.s.status # AOK
       THEN /\ mode' = "returned"
            /\ result' = Returned("run_until_halt", 0, 0, TRUE, 0,
                                   Append(execution_log, r.log))
       ELSE /\ mode' = "run"
            /\ result' = result

RunIter ==
    /\ mode = "run"
    /\ nops < MaxCycles
    /\ RunIterDone(step(Machine))


-----------------------------------------------------------------------------
(* Inputs: program images as lists of input lines *)

\* the bytes of a word, least significant first
LE(v) == [i \in 1..WordBytes |-> ((v % TwoW) \div Pow2(8 * (i - 1))) % 256]

\* a byte string as its hex digits
HexDigits(bytes) ==
    [k \in 1..(2 * Len(bytes)) |->
        IF k % 2 = 1 THEN bytes[(k + 1) \div 2] \div 16 ELSE bytes[k \div 2] % 16]

Line(addr, bytes) == [addr_ok |-> TRUE, addr |-> addr, digits |-> HexDigits(bytes)]

I_halt == <<0>>
I_nop == <<16>>
I_cmov(fn, rA, rB) == <<32 + fn, 16 * rA + rB>>
I_irmovq(rB, v) == <<48, 16 * 15 + rB>> \o LE(v)
I_rmmovq(rA, rB, d) == <<64, 16 * rA + rB>> \o LE(d)
I_mrmovq(rA, rB, d) == <<80, 16 * rA + rB>> \o LE(d)
I_op(fn, rA, rB) == <<96 + fn, 16 * rA + rB>>
I_jxx(fn, dest) == <<112 + fn>> \o LE(dest)
I_call(dest) == <<128>> \o LE(dest)
I_ret == <<144>>
I_pushq(rA) == <<160, 16 * rA + 15>>
I_popq(rA) == <<176, 16 * rA + 15>>

\* the 27 opcode bytes of instruction_set and the other byte values
OpcodeBytes == {b \in 0..255 : instruction_set(Hex2(b)) # ""}
InvalidBytes == (0..255) \ OpcodeBytes

\* operand values: zero, the units and the ends of the signed range
Vals == {0, 1, -1, MaxInt, MinInt}
\* stack pointers: reset value, one and four words up, unaligned, negative
SpVals == {0, WordBytes, 4 * WordBytes, 4 * WordBytes + 1, -WordBytes}
\* register selectors: %rax, %rsp and 0xF (no register)
Sels == {0, RSP, 15}
\* displacements and jump targets
Disps == {0, 1, -1, 4 * WordBytes, 8 * WordBytes}

\* irmovq a, %rax; irmovq b, %rsp; then one instruction i
Setup(a, b, i) == <<Line(0, I_irmovq(0, a) \o I_irmovq(RSP, b) \o i)>>

\* arithmetic on every pair of operand values, also the same register twice
\* and selector 0xF
AluPrograms ==
    {Setup(a, b, I_op(fn, rA, RSP)) :
        a \in Vals, b \in Vals, fn \in 0..3, rA \in {0, RSP, 15}}

\* stack and memory instructions over the stack pointers
StackInstrs ==
    {I_ret, I_halt, I_nop}
    \cup {I_rmmovq(0, rB, d) : rB \in {RSP, 15}, d \in Disps}
    \cup {I_mrmovq(0, rB, d) : rB \in {RSP, 15}, d \in Disps}
    \cup {I_call(d) : d \in {-1, 0, 4 * WordBytes}}
    \cup {I_pushq(rA) : rA \in Sels}
    \cup {I_popq(rA) : rA \in Sels}

StackPrograms ==
    {Setup(a, b, i) : a \in {-1, MinInt}, b \in SpVals \cup {MinInt}, i \in StackInstrs}

\* moves, jumps and bytes that are no opcode
OtherInstrs ==
    {I_cmov(fn, rA, rB) : fn \in 0..6, rA \in {0, 15}, rB \in {RSP, 15}}
    \cup {I_irmovq(rB, 1) : rB \in Sels}
    \cup {I_jxx(fn, d) : fn \in 0..6, d \in {-1, 4 * WordBytes}}
    \cup {<<b>> : b \in {1, 39, 100, 192, 255}}

OtherPrograms == {Setup(1, 4 * WordBytes, i) : i \in OtherInstrs}

\* a single byte at address 0: every opcode and every other byte value
OneBytePrograms == {<<Line(0, <<b>>)>> : b \in 0..255}

\* irmovq sp, %rsp; jmp p; at p: call t; at t: ret
CallAt == {2 + WordBytes + 1 + WordBytes, MaxInt - WordBytes - 1, MaxInt - WordBytes}
CallRetPrograms ==
    {<<Line(0, I_irmovq(RSP, sp) \o I_jxx(0, p)), Line(p, I_call(t)), Line(t, I_ret)>> :
        sp \in {WordBytes, 4 * WordBytes, 0}, p \in CallAt,
        t \in {16 * WordBytes, 3 * WordBytes}}

\* data words at 8 and 16 (and their neighbours), then whatever runs at 0
DataPrograms ==
    {<<Line(8, <<x>>), Line(16, <<y>>), Line(0, i)>> :
        x \in {0, 1}, y \in {0, 255}, i \in {I_halt, I_nop, I_rmmovq(0, 15, 4 * WordBytes)}}

Programs ==
    AluPrograms \cup StackPrograms \cup OtherPrograms \cup OneBytePrograms
    \cup CallRetPrograms \cup DataPrograms

\* main(): the program is loaded once, into the simulator as constructed
LoadProgram ==
    /\ nops = 0
    /\ mode = "idle"
    /\ DOMAIN memory = {}
    /\ \E prog \in Programs : Load(prog)
    /\ UNCHANGED nops

Next == LoadProgram \/ StepCall \/ RunStart \/ RunIter

Spec == Init /\ [][Next]_vars


-----------------------------------------------------------------------------
(* The memory interface called directly, interleaved with loads and cycles *)

\* Address cache_size has the cache index of address 0 under another tag.
\* read_byte: a negative address, two addresses of the line at 0, its alias
ReadAddrs == {-1, 0, WordBytes + 1, cache_size}
\* write_byte(address, value): bytes (144 is ret), a value that is no byte,
\* a negative address
WriteByteArgs ==
    {<<0, 144>>, <<0, 255>>, <<WordBytes + 1, 255>>, <<cache_size, 1>>,
     <<0, 256>>, <<0, -1>>, <<-1, 1>>}
\* read_memory_64: negative, aligned, unaligned, the alias
Read64Addrs == {-1, 0, 1, cache_size}
\* write_memory_64(address, value): the ends of the signed range, a value
\* above it, an unaligned and a negative address
Write64Args ==
    {<<0, -1>>, <<0, MaxInt>>, <<0, MaxInt + 1>>, <<cache_size, MinInt>>,
     <<WordBytes, 1>>, <<1, 1>>, <<-1, 1>>}
\* load_program: a pushq, a store to cache_size, a store to and a load from
\* the unaligned address 1, data at cache_size, and a line whose second pair
\* is no hex
MemLines ==
    {Line(0, I_pushq(0)), Line(0, I_rmmovq(0, 15, cache_size)),
     Line(0, I_rmmovq(0, 15, 1)), Line(0, I_mrmovq(0, 15, 1)),
     Line(cache_size, <<255, 1>>),
     [addr_ok |-> TRUE, addr |-> 0, digits |-> <<1, 0, NotHex, 1>>]}

MemDone(op, addr, arg, r, d) ==
    /\ SetMU(r.m)
    /\ result' = Returned(op, addr, arg, r.ok, r.val, <<>>)
    /\ direct' = d
    /\ nops' = nops + 1
    /\ UNCHANGED cpu_vars

\* write results carry no value
NoVal(r) == [m |-> r.m, ok |-> r.ok, val |-> 0]

ReadByteCall ==
    /\ mode # "run"
    /\ nops < MaxOps
    /\ \E a \in ReadAddrs : MemDone("read_byte", a, 0, read_byte(MU, a), direct)

WriteByteCall ==
    /\ mode # "run"
    /\ nops < MaxOps
    /\ \E w \in WriteByteArgs :
          MemDone("write_byte", w[1], w[2], NoVal(write_byte(MU, w[1], w[2])),
                  IF w[1] >= 0 /\ w[2] >= 0 /\ w[2] <= 255
                  THEN DirectWrite(direct, w[1], w[2]) ELSE direct)

Read64Call ==
    /\ mode # "run"
    /\ nops < MaxOps
    /\ \E a \in Read64Addrs :
          MemDone("read_memory_64", a, 0, read_memory_64(MU, a), direct)

Write64Call ==
    /\ mode # "run"
    /\ nops < MaxOps
    /\ \E w \in Write64Args :
          MemDone("write_memory_64", w[1], w[2], NoVal(write_memory_64(MU, w[1], w[2])),
                  IF w[1] >= 0 /\ w[1] % WordBytes = 0
                  THEN DirectWrite64(direct, w[1], w[2], 0) ELSE direct)

LoadCall ==
    /\ mode # "run"
    /\ nops < MaxOps
    /\ \E l \in MemLines : Load(<<l>>)
    /\ nops' = nops + 1

NextMem ==
    \/ ReadByteCall
    \/ WriteByteCall
    \/ Read64Call
    \/ Write64Call
    \/ LoadCall
    \/ StepCall

SpecMem == Init /\ [][NextMem]_vars


-----------------------------------------------------------------------------
(* Properties *)

\* v reduced modulo 2^w into the signed range
Wrap(v) == ((v + SignBit) % TwoW) - SignBit

InRange(v) == MinInt <= v /\ v <= MaxInt

\* the snapshots the caller holds
Snapshots ==
    {execution_log[k] : k \in DOMAIN execution_log}
    \cup {result.log[k] : k \in DOMAIN result.log}

\* the flags of w-bit two's-complement arithmetic on valB op valA
RefFlags(type, valA, valB) ==
    LET exact == alu_result(CASE type = "addq" -> "add" [] type = "subq" -> "sub"
                              [] type = "andq" -> "and" [] OTHER -> "xor",
                            valA, valB)
    IN  <<IF Wrap(exact) = 0 THEN 1 ELSE 0,
          IF Wrap(exact) < 0 THEN 1 ELSE 0,
          IF type \in {"addq", "subq"} /\ ~InRange(exact) THEN 1 ELSE 0>>

\* C1: after an addq, subq, andq or xorq cycle on operands in the signed
\* range, ZF, SF and OF are those of w-bit two's-complement arithmetic: ZF iff
\* the wrapped result is 0, SF iff it is negative, OF iff the exact result
\* left the signed range (never for andq and xorq).
C1_FlagsMatchReference ==
    [][(/\ nops' = nops + 1
        /\ last'.executed
        /\ last'.type \in {"addq", "subq", "andq", "xorq"}
        /\ InRange(get_register_value(registers, last'.instr.rA))
        /\ InRange(get_register_value(registers, last'.instr.rB)))
       => <<ZF', SF', OF'>> =
            RefFlags(last'.type,
                     get_register_value(registers, last'.instr.rA),
                     get_register_value(registers, last'.instr.rB))]_vars

\* C2: in every reachable state each of the 15 registers holds a value in the
\* signed range, and so does every REG value of every snapshot.
C2_RegistersInRange ==
    /\ \A i \in 0..(NumRegs - 1) : InRange(registers[i])
    /\ \A snap \in Snapshots : \A k \in DOMAIN snap.REG : InRange(snap.REG[k][2])

\* C3: a cycle that fetches a byte that is none of the 27 opcodes ends with
\* status INVALID-INSTRUCTION, and when that byte is the first of the program
\* run_until_halt returns exactly one snapshot, with STAT = 4.
C3_InvalidOpcodeIsINS ==
    (last.executed /\ last.fetched \in InvalidBytes)
    => /\ status = INS
       /\ (result.op = "run_until_halt" /\ nops = 1)
          => (Len(result.log) = 1 /\ result.log[1].STAT = INS)

\* C4: every read_byte of a non-negative address returns, through the cache,
\* the byte the uncached reference map holds there after the same sequence of
\* loads, writes and cycles.
C4_CacheTransparent ==
    (result.op = "read_byte" /\ result.addr >= 0)
    => (result.ok /\ result.val = DirectRead(direct, result.addr))

\* a read of address 0 returned its byte while the address with the same cache
\* index and another tag holds a different non-zero byte
C4_Witness ==
    /\ result.op = "read_byte"
    /\ result.addr = 0
    /\ result.val # 0
    /\ DirectRead(direct, cache_size) # 0
    /\ DirectRead(direct, cache_size) # result.val

\* the address of the first byte of the line with this index and tag
LineBase(index, tag) == tag * Pow2(offset_bits + index_bits) + index * Pow2(offset_bits)

\* C5: every valid cache line holds, at every offset, the byte of backing
\* memory (0 where unmapped) at the line's base address plus the offset, the
\* base address being the one of the line's index and tag.
C5_CacheCoherent ==
    \A index \in DOMAIN lines :
        lines[index].valid
        => \A i \in 0..(line_size - 1) :
              lines[index].data[i]
                = MemGet(memory, LineBase(index, lines[index].tag) + i)

\* a write or a load has just been made while a resident line holds a
\* non-zero byte
C5_Witness ==
    /\ result.op \in {"write_byte", "write_memory_64", "load_program"}
    /\ \E index \in DOMAIN lines :
          /\ lines[index].valid
          /\ \E i \in 0..(line_size - 1) : lines[index].data[i] # 0

\* C6: write_memory_64(a, v) with a >= 0 aligned and v in the signed range
\* succeeds and leaves the bytes of v at a..a+w-1, least significant first;
\* a read_memory_64(a) that follows it immediately returns v.
C6_Write64Read64 ==
    [][/\ (/\ result'.op = "write_memory_64"
           /\ result'.addr >= 0
           /\ result'.addr % WordBytes = 0
           /\ InRange(result'.arg))
          => /\ result'.ok
             /\ \A i \in 0..(WordBytes - 1) :
                   MemGet(memory', result'.addr + i)
                     = ((result'.arg % TwoW) \div Pow2(8 * i)) % 256
       /\ (/\ result.op = "write_memory_64"
           /\ result.ok
           /\ InRange(result.arg)
           /\ result'.op = "read_memory_64"
           /\ nops' = nops + 1
           /\ result'.addr = result.addr)
          => (result'.ok /\ result'.val = result.arg)]_vars

\* -1 was written at address 0 and read back by the very next call
C6_Witness ==
    /\ nops = 2
    /\ result.op = "read_memory_64"
    /\ result.addr = 0
    /\ result.ok
    /\ result.val = -1


\* a call cycle has executed and the cycle now made executes a ret
CallThenRet ==
    /\ last.executed
    /\ last.type = "call"
    /\ nops' = nops + 1
    /\ last'.executed
    /\ last'.type = "ret"

\* C7 as stated: when a call at address p is followed at once by a ret, then
\* after the ret PC = p + (length of call), %rsp has its value before the
\* call and the status is RUNNING.
C7_CallRetRestores ==
    [][CallThenRet
       => /\ PC' = last.pc + 1 + WordBytes
          /\ registers'[RSP] = last.rsp
          /\ status' = AOK]_vars

\* C7 amended: when a call at address p is followed at once by a ret, then
\* after the ret PC is p + (length of call) reduced modulo 2^w into the signed
\* range (so PC = p + length whenever that address is at most the largest
\* signed word), %rsp has its value before the call and the status is RUNNING.
C7_CallRetRestoresWrapped ==
    [][CallThenRet
       => /\ PC' = Wrap(last.pc + 1 + WordBytes)
          /\ registers'[RSP] = last.rsp
          /\ status' = AOK]_vars

\* the fourth cycle of "irmovq sp,%rsp; jmp p; p: call t; t: ret" was the
\* ret, and it came back behind the call with the stack pointer restored
C7_Witness ==
    /\ nops = 4
    /\ last.executed
    /\ last.type = "ret"
    /\ status = AOK
    /\ PC = (2 + WordBytes) + (1 + WordBytes) + (1 + WordBytes)
    /\ registers[RSP] = last.rsp + WordBytes
    /\ registers[RSP] > 0

\* the instruction classes that set PC themselves
ControlTypes == {"halt", "jmp", "jle", "jl", "je", "jne", "jge", "jg", "call", "ret", ""}

\* the encoded lengths: 1, 2, and 2 + the bytes of a word
RefLength(type) ==
    IF type = "nop" THEN 1
    ELSE IF type \in {"irmovq", "rmmovq", "mrmovq"} THEN 2 + WordBytes
    ELSE 2

\* C8: a cycle executed while RUNNING whose instruction is no control
\* transfer (nop, rrmovq/cmovXX, irmovq, rmmovq, mrmovq, addq/subq/andq/xorq,
\* pushq, popq) and raises no memory fault leaves PC = PC before + decoded
\* length, the length being 1 for nop, 2 + word size for irmovq, rmmovq and
\* mrmovq, and 2 for the others.
C8_PCAdvancesByLength ==
    [][(/\ nops' = nops + 1
        /\ last'.executed
        /\ last'.type \notin ControlTypes
        /\ status' = AOK)
       => /\ PC' = PC + last'.instr.length
          /\ last'.instr.length = RefLength(last'.type)]_vars

\* a memory load that is not the first instruction has completed
C8_Witness ==
    /\ last.executed
    /\ last.type = "mrmovq"
    /\ status = AOK
    /\ last.pc > 0
    /\ PC = last.pc + 2 + WordBytes

\* C9: a halt cycle changes only the status: PC, registers, condition codes
\* and memory stay; and run_until_halt on the program that is the single byte
\* 00 at address 0 returns exactly one snapshot, with STAT = 2, PC = 0 and
\* every register at its initial value 0.
C9_HaltOnlyStops ==
    [][/\ (nops' = nops + 1 /\ last'.executed /\ last'.type = "halt")
          => /\ status' = HLT
             /\ PC' = PC
             /\ registers' = registers
             /\ <<ZF', SF', OF'>> = <<ZF, SF, OF>>
             /\ memory' = memory
       /\ (/\ result'.op = "run_until_halt"
           /\ nops = 0
           /\ nops' = 1
           /\ DOMAIN memory' = {0}
           /\ memory'[0] = 0)
          => /\ Len(result'.log) = 1
             /\ result'.log[1].STAT = HLT
             /\ result'.log[1].PC = 0
             /\ \A k \in DOMAIN result'.log[1].REG : result'.log[1].REG[k][2] = 0]_vars

\* run_until_halt has returned from the single-halt program
C9_Witness ==
    /\ result.op = "run_until_halt"
    /\ nops = 1
    /\ DOMAIN memory = {0}
    /\ memory[0] = 0
    /\ status = HLT
    /\ Len(result.log) = 1

\* C10: in every snapshot the keys of MEM are in strictly ascending
\* string order of their decimal text; so key "16" comes before key "8"
\* whenever both are present.
C10_MemKeysStringOrder ==
    \A snap \in Snapshots :
        /\ \A k \in 1..(Len(snap.MEM) - 1) : StrLess(snap.MEM[k][1], snap.MEM[k + 1][1])
        /\ \A i, j \in DOMAIN snap.MEM :
              (snap.MEM[i][1] = Str(16) /\ snap.MEM[j][1] = Str(8)) => i < j

\* a snapshot lists key "16" immediately before key "8"
C10_Witness ==
    \E snap \in Snapshots :
        \E k \in 1..(Len(snap.MEM) - 1) :
            /\ snap.MEM[k][1] = Str(16)
            /\ snap.MEM[k + 1][1] = Str(8)

\* C11: the status never leaves a stopped value, and a step() made while the
\* status is not RUNNING leaves status, PC, registers, condition codes,
\* memory and cache as they are and returns the snapshot of that same state.
C11_StoppedStaysStopped ==
    [][(status # AOK)
       => /\ status' = status
          /\ (nops' = nops + 1)
             => /\ <<PC', registers', ZF', SF', OF'>> = <<PC, registers, ZF, SF, OF>>
                /\ <<memory', lines'>> = <<memory, lines>>
                /\ ~last'.executed
                /\ (result'.op = "step")
                   => result'.log = <<generate_state_log(Machine)>>]_vars

\* step() was called on a machine stopped by a fault and returned its snapshot
C11_Witness ==
    /\ status = ADR
    /\ result.op = "step"
    /\ ~last.executed
    /\ nops >= 2
    /\ result.log[1].STAT = ADR

\* every snapshot of the trace but the last is RUNNING and the last is the
\* stopped status st
TraceShape(log, st) ==
    /\ \A k \in 1..(Len(log) - 1) : log[k].STAT = AOK
    /\ (Len(log) > 0) => (log[Len(log)].STAT = st /\ st \in {HLT, ADR, INS})

\* C12: run_until_halt appends exactly one snapshot per executed cycle, the
\* snapshot of the state that cycle left, in execution order; it goes on only
\* while the status is RUNNING and returns after the first cycle that leaves
\* another status; the trace returned has STAT = 1 in every snapshot but the
\* last and STAT in {2, 3, 4} in the last.
C12_TraceOnePerCycle ==
    [][/\ (mode = "run")
          => /\ status = AOK
             /\ (nops' = nops + 1)
                => /\ last'.executed
                   /\ execution_log' = Append(execution_log, generate_state_log(Machine'))
                   /\ (mode' = "returned") <=> (status' # AOK)
                   /\ mode' \in {"run", "returned"}
       /\ (mode # "returned" /\ mode' = "returned")
          => /\ result'.op = "run_until_halt"
             /\ result'.log = execution_log'
             /\ status' # AOK
             /\ TraceShape(result'.log, status')
             /\ (mode # "run") => (result'.log = <<>> /\ nops' = nops)]_vars

\* a run of three cycles has returned, stopped by a fault in the third
C12_Witness ==
    /\ mode = "returned"
    /\ result.op = "run_until_halt"
    /\ nops = 3
    /\ Len(result.log) = 3
    /\ result.log[3].STAT = ADR
    /\ result.log[2].STAT = AOK

\* the snapshot the cycle just made produced: the one step() returned, or the
\* one run_until_halt appended last
CycleSnapshot ==
    IF mode = "idle" THEN result.log[1] ELSE execution_log[Len(execution_log)]

\* memory m2 is memory m1 with the bytes of word v at a..a+w-1, least
\* significant first, and nothing else changed
WordStored(m1, m2, a, v) ==
    /\ \A i \in 0..(WordBytes - 1) : MemGet(m2, a + i) = LE(v)[i + 1]
    /\ \A x \in (DOMAIN m1) \cup (DOMAIN m2) :
          (x < a \/ x >= a + WordBytes) => MemGet(m2, x) = MemGet(m1, x)

\* C13: a pushq cycle always leaves %rsp = old %rsp - (word size) and changes
\* no other register.  If that address is negative or unaligned, the status
\* becomes INVALID-ADDRESS, PC and memory stay, and the snapshot shows the
\* decremented %rsp; otherwise the word of the old value of rA is stored
\* there, the status stays RUNNING and PC advances by 2.
C13_PushqAlwaysDecrements ==
    [][(nops' = nops + 1 /\ last'.executed /\ last'.type = "pushq")
       => LET new_rsp == registers[RSP] - WordBytes
              value == get_register_value(registers, last'.instr.rA)
          IN  /\ registers'[RSP] = new_rsp
              /\ \A i \in 0..(NumRegs - 1) : i # RSP => registers'[i] = registers[i]
              /\ DictGet(CycleSnapshot'.REG, "rsp", 0) = new_rsp
              /\ IF new_rsp < 0 \/ new_rsp % WordBytes # 0
                 THEN /\ status' = ADR
                      /\ CycleSnapshot'.STAT = ADR
                      /\ PC' = PC
                      /\ memory' = memory
                 ELSE /\ status' = AOK
                      /\ PC' = PC + 2
                      /\ WordStored(memory, memory', new_rsp, value)]_vars

\* a pushq from the reset stack pointer 0 has faulted and left %rsp below 0
C13_Witness ==
    /\ last.executed
    /\ last.type = "pushq"
    /\ last.rsp = 0
    /\ status = ADR
    /\ registers[RSP] = -WordBytes
    /\ DictGet(CycleSnapshot.REG, "rsp", 0) = -WordBytes

\* the cycle c, about to execute from the current state, accesses memory at
\* a negative address (fetch included) or writes a word at an unaligned one
FaultingAccess(c) ==
    LET ea == get_register_value(registers, c.instr.rB) + c.instr.immediate
        down == registers[RSP] - WordBytes
    IN  \/ PC < 0
        \/ c.type = "mrmovq" /\ ea < 0
        \/ c.type = "rmmovq" /\ (ea < 0 \/ ea % WordBytes # 0)
        \/ c.type \in {"pushq", "call"} /\ (down < 0 \/ down % WordBytes # 0)
        \/ c.type \in {"popq", "ret"} /\ registers[RSP] < 0

\* C14: a RUNNING cycle that accesses memory at a negative address (data
\* read, data write, push, pop, or the fetch itself when PC is negative) or
\* writes a word at an unaligned address ends with status INVALID-ADDRESS,
\* shown in its snapshot.
C14_BadAccessIsADR ==
    [][(nops' = nops + 1 /\ last'.executed /\ FaultingAccess(last'))
       => (status' = ADR /\ CycleSnapshot'.STAT = ADR)]_vars

\* the signed word whose bytes, least significant first, the reference map d
\* holds at a..a+w-1
RECURSIVE RefBytes(_, _, _)
RefBytes(d, a, i) ==
    IF i = WordBytes THEN 0 ELSE DirectRead(d, a + i) * Pow2(8 * i) + RefBytes(d, a, i + 1)

RefWord(d, a) == Wrap(RefBytes(d, a, 0))

Unaligned(a) == a >= 0 /\ a % WordBytes # 0

\* C15: at a non-negative unaligned address a, read_memory_64(a) succeeds
\* with the signed little-endian word of bytes a..a+w-1, and so an mrmovq
\* from a loads it and advances PC; write_memory_64(a, v) fails and changes
\* no memory byte and no cache line, and an rmmovq to a ends with status
\* INVALID-ADDRESS, PC and memory unchanged.
C15_AlignmentAsymmetry ==
    [][(nops' = nops + 1)
       => /\ (result'.op = "read_memory_64" /\ Unaligned(result'.addr))
             => (result'.ok /\ result'.val = RefWord(direct, result'.addr))
          /\ (result'.op = "write_memory_64" /\ Unaligned(result'.addr))
             => (~result'.ok /\ memory' = memory /\ lines' = lines)
          /\ (result'.op = "step" /\ last'.executed /\ last'.type \in {"mrmovq", "rmmovq"}
              /\ Unaligned(get_register_value(registers, last'.instr.rB)
                           + last'.instr.immediate))
             => LET ea == get_register_value(registers, last'.instr.rB)
                            + last'.instr.immediate
                IN  IF last'.type = "rmmovq"
                    THEN status' = ADR /\ PC' = PC /\ memory' = memory
                    ELSE /\ status' = AOK
                         /\ PC' = PC + 2 + WordBytes
                         /\ get_register_value(registers', last'.instr.rA)
                              = IF last'.instr.rA < NumRegs THEN RefWord(direct, ea) ELSE 0]_vars

\* an mrmovq from the unaligned address 1 has loaded a non-zero word into %rax
C15_Witness ==
    /\ result.op = "step"
    /\ last.executed
    /\ last.type = "mrmovq"
    /\ last.instr.rA = 0
    /\ last.instr.immediate = 1
    /\ status = AOK
    /\ registers[0] # 0
    /\ registers[0] = RefWord(direct, 1)

\* a popq cycle is made from the current state
PopqCycle == nops' = nops + 1 /\ last'.executed /\ last'.type = "popq"

\* C16 as stated, for a destination that is one of the 15 registers: a popq
\* at a negative %rsp ends with INVALID-ADDRESS and PC, registers and memory
\* unchanged; otherwise %rsp is increased by the word size, the destination
\* register receives the word read at the old %rsp, and PC advances by 2.
C16_PopqAllOrNothing ==
    [][(PopqCycle /\ last'.instr.rA < NumRegs)
       => IF registers[RSP] < 0
          THEN status' = ADR /\ PC' = PC /\ registers' = registers /\ memory' = memory
          ELSE /\ status' = AOK
               /\ PC' = PC + 2
               /\ registers'[RSP] = registers[RSP] + WordBytes
               /\ registers'[last'.instr.rA] = RefWord(direct, registers[RSP])]_vars

\* C16 amended: a popq at a negative %rsp ends with INVALID-ADDRESS and PC,
\* registers and memory unchanged; otherwise PC advances by 2, memory stays,
\* the destination register receives the word read at the old %rsp, and
\* %rsp is increased by the word size unless %rsp is itself the destination,
\* in which case it holds the word read; no other register changes.
C16_PopqDestinationWins ==
    [][PopqCycle
       => IF registers[RSP] < 0
          THEN status' = ADR /\ PC' = PC /\ registers' = registers /\ memory' = memory
          ELSE /\ status' = AOK
               /\ PC' = PC + 2
               /\ memory' = memory
               /\ \A i \in 0..(NumRegs - 1) :
                     registers'[i] =
                        IF i = last'.instr.rA THEN RefWord(direct, registers[RSP])
                        ELSE IF i = RSP THEN registers[RSP] + WordBytes
                        ELSE registers[i]]_vars

\* a popq has loaded %rax with the non-zero word at the old %rsp
C16_Witness ==
    /\ last.executed
    /\ last.type = "popq"
    /\ last.instr.rA = 0
    /\ last.rsp > 0
    /\ status = AOK
    /\ registers[RSP] = last.rsp + WordBytes
    /\ registers[0] = RefWord(direct, last.rsp)
    /\ registers[0] # 0

C18_RetPopsPC ==
    [][(nops' = nops + 1 /\ last'.executed /\ last'.type = "ret")
       => IF registers[RSP] >= 0
          THEN /\ status' = AOK
               /\ PC' = RefWord(direct, registers[RSP])
               /\ registers' = [registers EXCEPT ![RSP] = @ + WordBytes]
               /\ memory' = memory
          ELSE /\ status' = ADR
               /\ PC' = PC
               /\ registers' = registers]_vars

\* a ret has set PC to a negative word popped from the stack and goes on
\* RUNNING
C18_Witness ==
    /\ last.executed
    /\ last.type = "ret"
    /\ last.rsp >= 0
    /\ status = AOK
    /\ PC < 0
    /\ PC = RefWord(direct, last.rsp)
    /\ registers[RSP] = last.rsp + WordBytes

AluTypes == {"addq", "subq", "andq", "xorq"}

\* the flags an arithmetic cycle c computes from the current registers when
\* the flags before it are z, f, o
AluFlags(c, z, f, o) ==
    Bind(execute_arithmetic([Machine EXCEPT !.ZF = z, !.SF = f, !.OF = o], c.instr).s,
         LAMBDA s : <<s.ZF, s.SF, s.OF>>)

\* C19: a cycle that executes anything but addq, subq, andq, xorq (halt, nop,
\* moves, pushq, popq, call, ret, jumps; completed or faulting) leaves ZF, SF
\* and OF as they were; an arithmetic cycle sets all three from its result
\* and operands alone, whatever they were before: ZF iff the result is 0, SF
\* iff it is negative, OF 0 or 1 (0 for andq and xorq).
C19_FlagsOnlyByArithmetic ==
    [][(nops' = nops + 1 /\ last'.executed)
       => IF last'.type \notin AluTypes
          THEN <<ZF', SF', OF'>> = <<ZF, SF, OF>>
          ELSE LET res == alu_result(CASE last'.type = "addq" -> "add"
                                       [] last'.type = "subq" -> "sub"
                                       [] last'.type = "andq" -> "and"
                                       [] OTHER -> "xor",
                                     get_register_value(registers, last'.instr.rA),
                                     get_register_value(registers, last'.instr.rB))
               IN  /\ ZF' = IF res = 0 THEN 1 ELSE 0
                   /\ SF' = IF res < 0 THEN 1 ELSE 0
                   /\ OF' \in {0, 1}
                   /\ (last'.type \in {"andq", "xorq"}) => OF' = 0
                   /\ \A z, f, o \in {0, 1} : <<ZF', SF', OF'>> = AluFlags(last', z, f, o)]_vars

\* an arithmetic cycle made the result negative, and the cycle after it, a
\* halt, has kept SF = 1 and ZF = 0
C19_Witness ==
    /\ nops = 4
    /\ last.executed
    /\ last.type = "halt"
    /\ SF = 1
    /\ ZF = 0
    /\ status = HLT

-----------------------------------------------------------------------------
(* The condition predicates on every combination of condition codes.  ZF, SF
   and OF are the inputs of execute_conditional_move and check_jump_condition;
   here the machine starts with each of the eight combinations, then a
   program with one conditional move or one jump is loaded and stepped. *)

InitCC ==
    /\ memory = [a \in {} |-> 0]
    /\ lines = [i \in 0..(num_lines - 1) |-> CacheLine]
    /\ hits = 0
    /\ misses = 0
    /\ accesses = 0
    /\ registers = [i \in 0..(NumRegs - 1) |-> 0]
    /\ ZF \in {0, 1}
    /\ SF \in {0, 1}
    /\ OF \in {0, 1}
    /\ PC = 0
    /\ status = AOK
    /\ execution_log = <<>>
    /\ mode = "idle"
    /\ result = Returned("none", 0, 0, TRUE, 0, <<>>)
    /\ last = NoCycle
    /\ direct = [a \in {} |-> 0]
    /\ nops = 0

\* irmovq 1, %rax; irmovq 4w, %rsp; then a conditional move, a jump, or
\* another of OtherInstrs
LoadCC ==
    /\ nops = 0
    /\ DOMAIN memory = {}
    /\ \E prog \in OtherPrograms : Load(prog)
    /\ UNCHANGED nops

NextCC == LoadCC \/ StepCall

SpecCC == InitCC /\ [][NextCC]_vars

\* the standard predicate of condition code k: always, le, l, e, ne, ge, g
StdCond(k, zf, sf, of) ==
    CASE k = 0 -> TRUE
      [] k = 1 -> (zf = 1) \/ (sf # of)
      [] k = 2 -> sf # of
      [] k = 3 -> zf = 1
      [] k = 4 -> zf = 0
      [] k = 5 -> sf = of
      [] k = 6 -> (zf = 0) /\ (sf = of)

\* C20: for every ZF, SF, OF in {0,1} and every condition code k in 0..6, the
\* conditional move with low nibble k copies rA to rB iff the jump with low
\* nibble k is taken, and both follow the standard predicate of k; a taken
\* jump sets PC to its target, a jump not taken sets PC = PC + (length of
\* jump), and a conditional move whose predicate is false changes no
\* register.
C20_CmovAndJumpAgree ==
    [][/\ \A k \in 0..6 :
             /\ cmov_condition_met(k, ZF, SF, OF) = StdCond(k, ZF, SF, OF)
             /\ check_jump_condition(instruction_set(<<7, k>>), ZF, SF, OF)
                  = StdCond(k, ZF, SF, OF)
       /\ (nops' = nops + 1 /\ last'.executed /\ last'.instr.opcode[1] = 2)
          => /\ status' = AOK
             /\ registers' =
                  IF StdCond(last'.instr.opcode[2], ZF, SF, OF) /\ last'.instr.rB < NumRegs
                  THEN [registers EXCEPT ![last'.instr.rB] =
                            get_register_value(registers, last'.instr.rA)]
                  ELSE registers
       /\ (nops' = nops + 1 /\ last'.executed /\ last'.instr.opcode[1] = 7)
          => /\ status' = AOK
             /\ registers' = registers
             /\ PC' = IF StdCond(last'.instr.opcode[2], ZF, SF, OF)
                      THEN last'.instr.immediate
                      ELSE PC + 1 + WordBytes]_vars

\* with ZF = 0 and SF = OF = 1 a cmovg has copied %rax = 1 into %rsp
C20_Witness ==
    /\ ZF = 0
    /\ SF = 1
    /\ OF = 1
    /\ last.executed
    /\ last.type = "cmovg"
    /\ last.instr.rA = 0
    /\ last.instr.rB = RSP
    /\ registers[RSP] = 1
    /\ registers[0] = 1

-----------------------------------------------------------------------------
(* Properties of the cache, the snapshot and the loader *)

\* the line of address a is resident
Resident(a) ==
    /\ lines[(a \div line_size) % num_lines].valid
    /\ lines[(a \div line_size) % num_lines].tag = a \div cache_size

\* C21: a write_byte that misses the cache updates the byte of backing
\* memory and leaves every cache line as it is; one that hits changes that
\* byte of that line and nothing else of the cache.  write_memory_64 and
\* load_program change no valid bit and no tag either, and a read_byte that
\* hits changes no line: only a read miss makes a line valid or retags it.
C21_NoWriteAllocate ==
    [][(nops' = nops + 1)
       => /\ (/\ result'.op = "write_byte"
              /\ result'.addr >= 0
              /\ result'.arg \in 0..255)
             => /\ result'.ok
                /\ memory' = MemPut(memory, result'.addr, result'.arg)
                /\ lines' =
                     IF Resident(result'.addr)
                     THEN [lines EXCEPT
                             ![(result'.addr \div line_size) % num_lines]
                                .data[result'.addr % line_size] = result'.arg]
                     ELSE lines
          /\ (result'.op \in {"write_byte", "write_memory_64", "load_program"})
             => \A i \in DOMAIN lines :
                   /\ lines'[i].valid = lines[i].valid
                   /\ lines'[i].tag = lines[i].tag
          /\ (result'.op = "read_byte" /\ (result'.addr < 0 \/ Resident(result'.addr)))
             => lines' = lines]_vars

\* the line of address 0 is resident and a write to the address with the same
\* index under another tag has reached memory without replacing it
C21_Witness ==
    /\ result.op = "write_byte"
    /\ result.addr = cache_size
    /\ result.ok
    /\ MemGet(memory, cache_size) = result.arg
    /\ result.arg # 0
    /\ Resident(0)
    /\ ~Resident(cache_size)

\* the caller holds a snapshot of the current state: the one the last step()
\* returned, or the last of the trace of run_until_halt
HasCycleSnapshot ==
    \/ mode = "idle" /\ result.op = "step"
    \/ mode \in {"run", "returned"} /\ execution_log # <<>>

\* the aligned base addresses of the bytes the reference map holds
RefBases == {a - (a % WordBytes) : a \in DOMAIN direct}

RefWindowNonzero(b) == \E i \in 0..(WordBytes - 1) : DirectRead(direct, b + i) # 0

\* C22: the MEM mapping of the snapshot of the current state has one key for
\* exactly those aligned base addresses whose window of backing memory holds
\* a non-zero byte; each key is the decimal text of a multiple of the word
\* size and each value the signed little-endian word of the window, never 0;
\* backing memory is the uncached reference, writes of the cycle just
\* executed included, whatever the cache holds.
C22_MemIsNonzeroWindows ==
    HasCycleSnapshot
    => /\ \A k \in DOMAIN CycleSnapshot.MEM :
             \E b \in RefBases :
                /\ CycleSnapshot.MEM[k][1] = Str(b)
                /\ b % WordBytes = 0
                /\ RefWindowNonzero(b)
                /\ CycleSnapshot.MEM[k][2] = RefWord(direct, b)
                /\ CycleSnapshot.MEM[k][2] # 0
       /\ \A b \in RefBases :
             RefWindowNonzero(b)
             => \E k \in DOMAIN CycleSnapshot.MEM : CycleSnapshot.MEM[k][1] = Str(b)
       /\ \A j, k \in DOMAIN CycleSnapshot.MEM :
             CycleSnapshot.MEM[j][1] = CycleSnapshot.MEM[k][1] => j = k

\* a pushq has stored -1 and the snapshot of that cycle reports the word -1
\* under the new stack pointer
C22_Witness ==
    /\ HasCycleSnapshot
    /\ last.executed
    /\ last.type = "pushq"
    /\ status = AOK
    /\ \E k \in DOMAIN CycleSnapshot.MEM :
          CycleSnapshot.MEM[k] = <<Str(registers[RSP]), -1>>

\* other values of the counters <<accesses, hits, misses>>, consistent or not
AltCounters == {<<0, 0, 0>>, <<7, 2, 5>>, <<3, 9, 1>>}

\* the memory unit of the current state with other counters
AltMU(c) == [MU EXCEPT !.accesses = c[1], !.hits = c[2], !.misses = c[3]]

\* memory unit record m holds the memory and cache of the next state
SameMemory(m) == m.memory = memory' /\ m.lines = lines'

\* machine record s holds everything of the next state but the counters
SameMachine(s) ==
    /\ SameMemory(s.m)
    /\ <<s.registers, s.ZF, s.SF, s.OF, s.PC, s.status>>
         = <<registers', ZF', SF', OF', PC', status'>>

\* the call just made, made again from the same state with counters c, has
\* the same result and leaves the same memory, cache and machine
SameOutcome(c) ==
    CASE result'.op = "read_byte" ->
           Bind(read_byte(AltMU(c), result'.addr),
                LAMBDA r : r.ok = result'.ok /\ r.val = result'.val /\ SameMemory(r.m))
      [] result'.op = "read_memory_64" ->
           Bind(read_memory_64(AltMU(c), result'.addr),
                LAMBDA r : r.ok = result'.ok /\ r.val = result'.val /\ SameMemory(r.m))
      [] result'.op = "write_byte" ->
           Bind(write_byte(AltMU(c), result'.addr, result'.arg),
                LAMBDA r : r.ok = result'.ok /\ SameMemory(r.m))
      [] result'.op = "write_memory_64" ->
           Bind(write_memory_64(AltMU(c), result'.addr, result'.arg),
                LAMBDA r : r.ok = result'.ok /\ SameMemory(r.m))
      [] result'.op = "load_program" ->
           \A l \in MemLines :
              SameMemory(load_program(MU, <<l>>).m)
              => SameMemory(load_program(AltMU(c), <<l>>).m)
      [] result'.op = "step" ->
           Bind(step([Machine EXCEPT !.m = AltMU(c)]),
                LAMBDA r : r.log = result'.log[1] /\ SameMachine(r.s))
      [] OTHER -> TRUE

\* C23: the counters never influence a result: every call (read, write,
\* load, cycle) made from the same memory, cache, registers, flags, PC and
\* status with other counter values returns the same value and snapshot and
\* leaves the same memory, cache and machine; and accesses = hits + misses
\* in every state.
C23_CountersAreObservers ==
    [][/\ accesses = hits + misses
       /\ accesses' = hits' + misses'
       /\ (nops' = nops + 1) => \A c \in AltCounters : SameOutcome(c)]_vars

\* a read that hit the cache returned a non-zero byte after several accesses
C23_Witness ==
    /\ result.op = "read_byte"
    /\ result.ok
    /\ result.val # 0
    /\ hits >= 1
    /\ misses >= 1
    /\ accesses = hits + misses
    /\ accesses >= 3

\* the byte string of an input line holds a pair that is no hex
Malformed(l) == \E k \in DOMAIN l.digits : l.digits[k] = NotHex

\* C24: a load of a line whose byte string holds a pair that does not parse
\* as hex reports success and contributes no byte: memory after the load is
\* memory before it.
C24_MalformedLineSkipped ==
    [][(nops' = nops + 1 /\ result'.op = "load_program")
       => \A l \in MemLines :
             (Malformed(l) /\ memory' = load_program(MU, <<l>>).m.memory)
             => (result'.ok /\ memory' = memory)]_vars

\* the instruction of cycle c has a register byte that names selector 0xF
NamesNoRegister(c) ==
    \/ c.type \notin ControlTypes \cup {"nop", "irmovq", "pushq", "popq"}
       /\ (c.instr.rA = 15 \/ c.instr.rB = 15)
    \/ c.type = "irmovq" /\ c.instr.rB = 15
    \/ c.type \in {"pushq", "popq"} /\ c.instr.rA = 15

\* C25: selector 0xF never faults a cycle.  A cycle whose instruction names
\* it ends RUNNING with PC advanced by the decoded length unless its memory
\* access faults; read as a source it yields 0 (rrmovq from 0xF clears the
\* destination, an arithmetic operand 0xF is 0), written as a destination it
\* changes no register (irmovq, rrmovq/cmovXX, arithmetic, mrmovq to 0xF);
\* the register file always has exactly the slots 0..14.
C25_SelectorFifteenIsInert ==
    [][/\ DOMAIN registers' = 0..(NumRegs - 1)
       /\ (nops' = nops + 1 /\ last'.executed /\ NamesNoRegister(last'))
          => /\ status' = IF FaultingAccess(last') THEN ADR ELSE AOK
             /\ (status' = AOK) => PC' = PC + last'.instr.length
             /\ (last'.type \in {"irmovq", "mrmovq"} \cup AluTypes /\ last'.instr.rB = 15
                 /\ last'.type # "mrmovq")
                => registers' = registers
             /\ (last'.instr.opcode[1] = 2 /\ last'.instr.rB = 15)
                => registers' = registers
             /\ (last'.type = "mrmovq" /\ last'.instr.rA = 15)
                => registers' = registers
             /\ (last'.type = "rrmovq" /\ last'.instr.rA = 15 /\ last'.instr.rB < NumRegs)
                => registers' = [registers EXCEPT ![last'.instr.rB] = 0]
             /\ (last'.type \in {"addq", "subq", "xorq"} /\ last'.instr.rA = 15
                 /\ last'.instr.rB < NumRegs)
                => registers' = registers
             /\ (last'.type = "andq" /\ last'.instr.rA = 15 /\ last'.instr.rB < NumRegs)
                => registers' = [registers EXCEPT ![last'.instr.rB] = 0]
             /\ (last'.type = "popq" /\ status' = AOK)
                => registers' = [registers EXCEPT ![RSP] = @ + WordBytes]]_vars

\* an irmovq to selector 0xF has completed and no register holds its value
C25_Witness ==
    /\ last.executed
    /\ last.type = "irmovq"
    /\ last.instr.rB = 15
    /\ last.instr.immediate = 1
    /\ status = AOK
    /\ PC = last.pc + 2 + WordBytes
    /\ \A i \in 0..(NumRegs - 1) : registers[i] # 1 \/ i = 0

\* the cycle being taken is a successful pushq or popq of type t whose
\* operand register is %rsp itself
StackOnRsp(t) ==
    /\ nops' = nops + 1
    /\ last'.executed
    /\ last'.type = t
    /\ last'.instr.rA = RSP
    /\ status' = AOK

\* C26: a successful popq %rsp leaves %rsp equal to the word read at the old
\* %rsp (not the old %rsp plus the word size) and changes no other register;
\* a successful pushq %rsp decrements %rsp by the word size and stores, at
\* the new %rsp, the value %rsp had before the decrement.
C26_RspOperandOrdering ==
    [][/\ StackOnRsp("popq")
          => /\ registers'[RSP] = RefWord(direct, registers[RSP])
             /\ \A i \in 0..(NumRegs - 1) : i # RSP => registers'[i] = registers[i]
             /\ memory' = memory
       /\ StackOnRsp("pushq")
          => /\ registers'[RSP] = registers[RSP] - WordBytes
             /\ WordStored(memory, memory', registers'[RSP], registers[RSP])
             /\ RefWord(direct', registers'[RSP]) = registers[RSP]]_vars

\* a pushq %rsp from four words up has stored the old pointer, which differs
\* from the new one, at the new pointer
C26_Witness ==
    /\ last.executed
    /\ last.type = "pushq"
    /\ last.instr.rA = RSP
    /\ last.rsp = 4 * WordBytes
    /\ status = AOK
    /\ registers[RSP] = 3 * WordBytes
    /\ RefWord(direct, registers[RSP]) = 4 * WordBytes

\* the value snapshot s reports for the register called name
Reported(s, name) == DictGet(s.REG, name, 512)

-----------------------------------------------------------------------------
(* Specification of main(): one image is loaded and run_until_halt runs it.  *)
(* The loop of run_until_halt is sequential code, so an iteration that can   *)
(* be taken is taken: weak fairness on RunIter.                              *)

\* k nop bytes from address 0; the byte after them is not loaded
NopSled(k) == <<Line(0, [i \in 1..k |-> 16])>>

\* instructions that neither transfer control nor write memory
StraightInstrs ==
    {I_halt, I_nop, <<255>>}
    \cup {I_op(fn, rA, RSP) : fn \in 0..3, rA \in {0, 15}}
    \cup {I_cmov(fn, 0, rB) : fn \in 0..6, rB \in {RSP, 15}}
    \cup {I_irmovq(rB, 1) : rB \in Sels}
    \cup {I_mrmovq(0, rB, d) : rB \in {RSP, 15}, d \in {0, -1, 4 * WordBytes}}
    \cup {I_popq(rA) : rA \in Sels}

StraightPrograms ==
    {Setup(a, b, i) : a \in {1, -1}, b \in {0, 4 * WordBytes, -WordBytes},
                      i \in StraightInstrs}
    \cup {NopSled(k) : k \in 1..(MaxCycles - 1)}

\* a jump at p to p itself, of every kind, alone or after the two irmovq
LoopPrograms ==
    {<<Line(0, I_jxx(fn, 0))>> : fn \in 0..6}
    \cup {Setup(a, 0, I_jxx(fn, 2 * (2 + WordBytes))) : a \in {0, -1}, fn \in 0..6}

LoadRun ==
    /\ nops = 0
    /\ mode = "idle"
    /\ DOMAIN memory = {}
    /\ \E prog \in StraightPrograms \cup LoopPrograms : Load(prog)
    /\ UNCHANGED nops

NextRun == LoadRun \/ RunStart \/ RunIter

\* a step of RunIter as its guard and its count of cycles: under NextRun
\* the steps that satisfy it are the steps of RunIter, and it is enabled
\* exactly when RunIter is
RunIterTaken == mode = "run" /\ nops < MaxCycles /\ nops' = nops + 1

SpecRun == Init /\ [][NextRun]_vars /\ WF_nops(RunIterTaken)

\* the instruction the next fetch at pc decodes
InstrAt(pc) == decode_instruction(MU, pc).instr

\* the image, followed from pc, reaches a halt (the byte 0, an unmapped
\* byte or a byte that is no opcode) without meeting a jump, call, ret,
\* rmmovq or pushq
RECURSIVE StraightFrom(_)
StraightFrom(pc) ==
    Bind(InstrAt(pc),
         LAMBDA i :
           IF instruction_set(i.opcode) = "halt" THEN TRUE
           ELSE IF i.opcode[1] \in {7, 8, 9} THEN FALSE
           ELSE IF instruction_set(i.opcode) \in {"rmmovq", "pushq"} THEN FALSE
           ELSE StraightFrom(pc + i.length))

\* the next instruction is a jump to its own address whose condition holds
JumpsToSelf ==
    /\ status = AOK
    /\ Bind(InstrAt(PC),
            LAMBDA i : /\ i.opcode[1] = 7
                       /\ check_jump_condition(instruction_set(i.opcode), ZF, SF, OF)
                       /\ i.immediate = PC)

\* C28: on an image that from PC on has no jump, call, ret, rmmovq or pushq,
\* every cycle that stays RUNNING strictly increases PC and leaves memory
\* alone, and run_until_halt eventually returns with a status other than
\* RUNNING; a cycle at a taken jump to itself leaves status RUNNING, PC and
\* memory as they were, so that run never returns.
C28_StraightLineTerminates ==
    /\ [][(nops' = nops + 1 /\ status = AOK /\ StraightFrom(PC))
          => /\ memory' = memory
             /\ (status' = AOK) => PC' > PC]_vars
    /\ ((mode = "run" /\ StraightFrom(PC)) ~> (mode = "returned" /\ status # AOK))
    /\ [][(nops' = nops + 1 /\ JumpsToSelf)
          => status' = AOK /\ PC' = PC /\ memory' = memory /\ mode' = mode]_vars
    /\ []((mode = "run" /\ JumpsToSelf) => [](mode = "run" /\ status = AOK))

\* a run of more than one cycle has passed the highest loaded address,
\* fetched the unmapped byte there and returned halted
C28_Witness ==
    /\ mode = "returned"
    /\ status = HLT
    /\ Len(execution_log) > 1
    /\ PC > 0
    /\ \A a \in DOMAIN memory : a < PC
    /\ last.fetched = 0

====
